---------------------------- MODULE Spec2Model ----------------------------
(***************************************************************************)
(* Model of the radius / effective-temperature fits of                     *)
(* python/RpTeff_from_Mdot_Mp_fit.py and of the legacy duplicate           *)
(* Rp_from_Mdot_Mp_Popsynthfit.py.                                         *)
(*                                                                         *)
(* The functions are pure; each specification draws the arguments of one   *)
(* call in Init and has one action per function, which applies it.         *)
(*                                                                         *)
(* Numbers.  The code computes in numpy float64: binary floating point,    *)
(* 53 bits, round to nearest even, with inf and nan.  The model computes   *)
(* in the same format with a mantissa of 13 bits: a number is [c, m, e]    *)
(* with c = "num" and value m*2^e (m = 0, or 2^12 <= |m| < 2^13),          *)
(* c = "inf" (m = +1 or -1) or c = "nan".  +, -, *, /, sqrt and the powers  *)
(* round the exact result once, to nearest even, as IEEE 754 does; log10   *)
(* and exp are accurate to about one unit in the last place.  Zero carries *)
(* no sign.  Decimal literals are converted with an error of a few units   *)
(* in the last place.                                                      *)
(* A raised exception is the value Raise: every operation with a raised    *)
(* operand is raised (the exception leaves the enclosing expression).      *)
(* An array is [c |-> "arr", v |-> <<...>>]; the operations broadcast as   *)
(* numpy's ufuncs do.                                                      *)
(* The numeric arguments are numpy float64 scalars or arrays, as in        *)
(* test_RpTeff_fit: an operation that leaves the range gives inf or nan    *)
(* and raises nothing.                                                     *)
(* The values of the functions on the sample arguments are tabulated       *)
(* (RpOf, TeffOf, ...); the actions and the properties read the tables.    *)
(***************************************************************************)
EXTENDS Integers, Sequences, FiniteSets, TLC

VARIABLES Mdot, Mp, Pop, Tint, ffill, lgn0, v0, Rp, pc, out

vars == <<Mdot, Mp, Pop, Tint, ffill, lgn0, v0, Rp, pc, out>>

----------------------------------------------------------------------------
(* Binary floating point, scalar operations                                *)

MantLo == 2^12
MantHi == 2^13
\* float64: the largest binary exponent of a finite number
MaxExp2 == 2^10 - 1

Abs(i) == IF i < 0 THEN -i ELSE i
Sgn(i) == IF i < 0 THEN -1 ELSE IF i > 0 THEN 1 ELSE 0

Zero == [c |-> "num", m |-> 0, e |-> 0]
NaN == [c |-> "nan", m |-> 0, e |-> 0]
Inf(s) == [c |-> "inf", m |-> s, e |-> 0]
Raise == [c |-> "raise", m |-> 0, e |-> 0]

\* the number of bits of a, 0 < a < 2^31
BitLen(a) == CHOOSE n \in 1..31 : 2^(n - 1) <= a /\ (n = 31 \/ a < 2^n)

\* the number s*q*2^x, MantLo <= q < MantHi: overflow to inf, underflow to 0
Pack(s, q, x) ==
    IF x + 12 > MaxExp2 THEN Inf(s)
    ELSE IF x + 12 < -MaxExp2 THEN Zero
    ELSE [c |-> "num", m |-> s * q, e |-> x]

\* the carry of a rounding up out of the 13 bits
RoundCarry(s, q1, x) == IF q1 = MantHi THEN Pack(s, MantLo, x + 1) ELSE Pack(s, q1, x)

\* to nearest, a tie to the even mantissa
RoundCut(s, q, rem, half, x, sticky) ==
    RoundCarry(s,
               IF rem > half \/ (rem = half /\ (sticky \/ q % 2 = 1))
               THEN q + 1 ELSE q,
               x)

\* a has n bits
RoundBits(s, a, x, sticky, n) ==
    IF n <= 13 THEN Pack(s, a * 2^(13 - n), x - (13 - n))
    ELSE RoundCut(s, a \div 2^(n - 13), a % 2^(n - 13), 2^(n - 14), x + n - 13,
                  sticky)

\* s*(a + f)*2^x rounded to 13 bits, to nearest even; a > 0, and sticky says
\* that the fraction f in [0,1) left out of a is not 0 (a then has > 13 bits)
Round(s, a, x, sticky) == RoundBits(s, a, x, sticky, BitLen(a))

FromInt(v) == IF v = 0 THEN Zero ELSE Round(Sgn(v), Abs(v), 0, FALSE)

IsNaN(a) == a.c = "nan"
IsInf(a) == a.c = "inf"
IsZero(a) == a.c = "num" /\ a.m = 0
IsFinite(a) == a.c = "num"
SignOf(a) == Sgn(a.m)

FNeg(a) == IF a.c = "nan" THEN a ELSE [a EXCEPT !.m = -a.m]
FAbs(a) == IF a.c = "nan" THEN a ELSE [a EXCEPT !.m = Abs(a.m)]

\* a < b and a <= b of float64: false when either is nan
FLt(a, b) ==
    IF IsNaN(a) \/ IsNaN(b) THEN FALSE
    ELSE IF IsInf(a) THEN a.m < 0 /\ ~(IsInf(b) /\ b.m < 0)
    ELSE IF IsInf(b) THEN b.m > 0
    ELSE IF SignOf(a) # SignOf(b) THEN SignOf(a) < SignOf(b)
    ELSE IF SignOf(a) = 0 THEN FALSE
    ELSE IF SignOf(a) > 0
         THEN a.e < b.e \/ (a.e = b.e /\ a.m < b.m)
         ELSE a.e > b.e \/ (a.e = b.e /\ a.m < b.m)

FLe(a, b) == ~IsNaN(a) /\ ~IsNaN(b) /\ (a = b \/ FLt(a, b))

\* the exact sum v*2^x, rounded
FAddExact(v, x) == IF v = 0 THEN Zero ELSE Round(Sgn(v), Abs(v), x, FALSE)

\* hi.e >= lo.e: a term 2^15 times smaller than the other is absorbed
FAddAligned(hi, lo) ==
    IF hi.e - lo.e >= 15 THEN hi
    ELSE FAddExact(hi.m * 2^(hi.e - lo.e) + lo.m, lo.e)

FAdd(a, b) ==
    IF IsNaN(a) \/ IsNaN(b) THEN NaN
    ELSE IF IsInf(a) THEN (IF IsInf(b) /\ b.m # a.m THEN NaN ELSE a)
    ELSE IF IsInf(b) THEN b
    ELSE IF a.m = 0 THEN b
    ELSE IF b.m = 0 THEN a
    ELSE FAddAligned(IF a.e >= b.e THEN a ELSE b, IF a.e >= b.e THEN b ELSE a)

FSub(a, b) == FAdd(a, FNeg(b))

FMul(a, b) ==
    IF IsNaN(a) \/ IsNaN(b) THEN NaN
    ELSE IF IsInf(a) \/ IsInf(b)
         THEN (IF IsZero(a) \/ IsZero(b) THEN NaN ELSE Inf(SignOf(a) * SignOf(b)))
    ELSE IF a.m = 0 \/ b.m = 0 THEN Zero
    ELSE Round(SignOf(a) * SignOf(b), Abs(a.m) * Abs(b.m), a.e + b.e, FALSE)

\* the quotient num/den of two mantissas, rounded
FDivQuot(s, num, den, x) == Round(s, num \div den, x, num % den # 0)

\* numpy division: x/0 is inf (nan for 0/0), with a warning and no exception
FDiv(a, b) ==
    IF IsNaN(a) \/ IsNaN(b) THEN NaN
    ELSE IF IsInf(a)
         THEN (IF IsInf(b) THEN NaN
               ELSE Inf(a.m * (IF SignOf(b) < 0 THEN -1 ELSE 1)))
    ELSE IF IsInf(b) THEN Zero
    ELSE IF IsZero(b) THEN (IF IsZero(a) THEN NaN ELSE Inf(SignOf(a)))
    ELSE IF IsZero(a) THEN Zero
    ELSE FDivQuot(SignOf(a) * SignOf(b), Abs(a.m) * 2^17, Abs(b.m),
                  a.e - b.e - 17)

RECURSIVE ISqrtBS(_, _, _)
\* the largest r with r*r <= n, searched in lo..hi-1 (lo*lo <= n < hi*hi)
ISqrtBS(n, lo, hi) ==
    IF hi - lo <= 1 THEN lo
    ELSE IF ((lo + hi) \div 2) * ((lo + hi) \div 2) <= n
         THEN ISqrtBS(n, (lo + hi) \div 2, hi)
         ELSE ISqrtBS(n, lo, (lo + hi) \div 2)

ISqrt(n) == ISqrtBS(n, 0, 2^15)

\* s the integer square root of n, the mantissa scaled to 29 or 30 bits
FSqrtRoot(n, s, x) == Round(1, s, x \div 2, s * s # n)

FSqrtScaled(n, x) == FSqrtRoot(n, ISqrt(n), x)

\* np.sqrt: nan for a negative argument
FSqrt(a) ==
    IF IsNaN(a) THEN NaN
    ELSE IF IsInf(a) THEN (IF a.m > 0 THEN a ELSE NaN)
    ELSE IF a.m < 0 THEN NaN
    ELSE IF a.m = 0 THEN Zero
    ELSE IF a.e % 2 = 0 THEN FSqrtScaled(a.m * 2^16, a.e - 16)
    ELSE FSqrtScaled(a.m * 2^17, a.e - 17)

\* x**2., x**3., x**4.: the exact power, rounded once (the product of two
\* mantissas fits 26 bits; higher powers are carried in two limbs of 13 bits)
FPow2(a) == FMul(a, a)

FPow3Limbs(s, hi, lo, x) == Round(s, hi + (lo \div MantHi), x, lo % MantHi # 0)

FPow3Cube(s, m, sq, x) ==
    FPow3Limbs(s, (sq \div MantHi) * m, (sq % MantHi) * m, x)

FPow3(a) ==
    IF ~IsFinite(a) \/ a.m = 0 THEN FMul(a, FMul(a, a))
    ELSE FPow3Cube(SignOf(a), Abs(a.m), a.m * a.m, 3 * a.e + 13)

FPow4Top(h, b, r, x) ==
    Round(1, h * h + (b \div MantHi) + (r \div 2^26), x, r % 2^26 # 0)

FPow4Cross(h, l, b, x) == FPow4Top(h, b, (b % MantHi) * MantHi + l * l, x)

FPow4Limbs(h, l, x) == FPow4Cross(h, l, 2 * h * l, x)

FPow4(a) ==
    IF ~IsFinite(a) \/ a.m = 0 THEN FMul(FMul(a, a), FMul(a, a))
    ELSE FPow4Limbs((a.m * a.m) \div MantHi, (a.m * a.m) % MantHi, 4 * a.e + 26)

RECURSIVE SqrtBits(_, _, _)
\* k more bits of a square root: s the root so far, rem the remainder
SqrtBits(s, rem, k) ==
    IF k = 0 THEN <<s, rem>>
    ELSE IF rem > s THEN SqrtBits(2 * s + 1, 4 * (rem - s) - 1, k - 1)
         ELSE SqrtBits(2 * s, 4 * rem, k - 1)

\* r the integer square root of the square root sr[1] (remainder sr[2])
FPowQuarterRoot4(sr, r, j) ==
    Round(1, r, j - 11, ~(sr[2] = 0 /\ r * r = sr[1]))

FPowQuarterRoot2(sr, j) == FPowQuarterRoot4(sr, ISqrt(sr[1]), j)

FPowQuarterBits(mm, s0, j) ==
    FPowQuarterRoot2(SqrtBits(s0, mm - s0 * s0, 22), j)

FPowQuarterScaled(mm, j) == FPowQuarterBits(mm, ISqrt(mm), j)

\* x**0.25: the fourth root, rounded once; nan for a negative base
FPowQuarter(a) ==
    IF IsNaN(a) THEN NaN
    ELSE IF IsInf(a) THEN (IF a.m > 0 THEN a ELSE NaN)
    ELSE IF a.m < 0 THEN NaN
    ELSE IF a.m = 0 THEN Zero
    ELSE FPowQuarterScaled(a.m * 2^(a.e % 4), (a.e - (a.e % 4)) \div 4)

\* a decimal literal of the source, v * 10^x
RECURSIVE P10(_)
P10(n) == IF n <= 9 THEN FromInt(10^n) ELSE FMul(P10(9), P10(n - 9))

Lit(v, x) ==
    IF x >= 0 THEN FMul(FromInt(v), P10(x)) ELSE FDiv(FromInt(v), P10(-x))

One == FromInt(1)
LOG10_2 == Lit(30103, -5)
LOG2_E == Lit(144270, -5)
LN_2 == Lit(69315, -5)

RECURSIVE Log2Bits(_, _, _)
\* k bits of log2(u / 2^14) for 2^14 <= u < 2^15, acc the bits so far
Log2Bits(u, acc, k) ==
    IF k = 0 THEN acc
    ELSE IF u * u >= 2^29 THEN Log2Bits((u * u) \div 2^15, 2 * acc + 1, k - 1)
    ELSE Log2Bits((u * u) \div 2^14, 2 * acc, k - 1)

\* v = log2(a) * 2^14
FLog10Fixed(v) ==
    IF v = 0 THEN Zero ELSE FMul(Round(Sgn(v), Abs(v), -14, FALSE), LOG10_2)

\* np.log10: -inf at 0, nan for a negative argument
FLog10(a) ==
    IF IsNaN(a) THEN NaN
    ELSE IF IsInf(a) THEN (IF a.m > 0 THEN a ELSE NaN)
    ELSE IF a.m < 0 THEN NaN
    ELSE IF a.m = 0 THEN Inf(-1)
    ELSE FLog10Fixed((a.e + 12) * 2^14 + Log2Bits(a.m * 4, 0, 14))

RECURSIVE ExpTail(_, _, _)
\* t + r^(k+1)/(k+1)! + ... + r^6/6!, summed from the right, for t = r^k/k!
ExpTail(r, t, k) ==
    IF k = 6 THEN t
    ELSE FAdd(t, ExpTail(r, FMul(t, FDiv(r, FromInt(k + 1))), k + 1))

\* the Taylor series of exp(r) to r^6/6!, for |r| <= ln(2)/2
ExpSeries(r) == FAdd(One, ExpTail(r, r, 1))

\* the integer nearest to a finite a with |a| < 2^12
NearestInt(a) ==
    IF a.m = 0 \/ a.e < -13 THEN 0
    ELSE IF a.e >= 0 THEN a.m * 2^(a.e)
    ELSE SignOf(a) * ((Abs(a.m) + 2^(-a.e - 1)) \div 2^(-a.e))

FExpScaled(t, k) == Pack(1, t.m, t.e + k)

FExpReduced(a, k) == FExpScaled(ExpSeries(FSub(a, FMul(FromInt(k), LN_2))), k)

\* y = a * log2(e)
FExpRanged(a, y) ==
    IF y.e + 12 >= 11 THEN (IF y.m > 0 THEN Inf(1) ELSE Zero)
    ELSE FExpReduced(a, NearestInt(y))

\* np.exp: exp(x) = 2^k * exp(x - k ln 2)
FExp(a) ==
    IF IsNaN(a) THEN NaN
    ELSE IF IsInf(a) THEN (IF a.m > 0 THEN a ELSE Zero)
    ELSE IF a.m = 0 THEN One
    ELSE FExpRanged(a, FMul(a, LOG2_E))

\* np.fmax, np.fmin: a nan operand is ignored
FFmax(a, b) ==
    IF IsNaN(a) THEN b ELSE IF IsNaN(b) THEN a ELSE IF FLt(a, b) THEN b ELSE a

FFmin(a, b) ==
    IF IsNaN(a) THEN b ELSE IF IsNaN(b) THEN a ELSE IF FLt(b, a) THEN b ELSE a

----------------------------------------------------------------------------
(* numpy's ufuncs: element by element over arrays, a scalar broadcast      *)

Arr(seq) == [c |-> "arr", v |-> seq]
IsArr(a) == a.c = "arr"
IsRaise(a) == a.c = "raise"

\* the i-th element of an operand: a scalar is broadcast
Elem(a, i) == IF IsArr(a) THEN a.v[i] ELSE a

\* the indices of the result (1 stands for the scalar result)
Index(a, b) ==
    IF IsArr(a) THEN DOMAIN a.v ELSE IF IsArr(b) THEN DOMAIN b.v ELSE {1}

\* the result r: an array if an operand is one
Shaped(isArr, r) == IF isArr THEN Arr(r) ELSE r[1]

\* the ufuncs and operators of numpy: elementwise, a raised operand raises
Add(a, b) ==
    IF IsRaise(a) \/ IsRaise(b) THEN Raise
    ELSE Shaped(IsArr(a) \/ IsArr(b),
                [i \in Index(a, b) |-> FAdd(Elem(a, i), Elem(b, i))])
Sub(a, b) ==
    IF IsRaise(a) \/ IsRaise(b) THEN Raise
    ELSE Shaped(IsArr(a) \/ IsArr(b),
                [i \in Index(a, b) |-> FSub(Elem(a, i), Elem(b, i))])
Mul(a, b) ==
    IF IsRaise(a) \/ IsRaise(b) THEN Raise
    ELSE Shaped(IsArr(a) \/ IsArr(b),
                [i \in Index(a, b) |-> FMul(Elem(a, i), Elem(b, i))])
Div(a, b) ==
    IF IsRaise(a) \/ IsRaise(b) THEN Raise
    ELSE Shaped(IsArr(a) \/ IsArr(b),
                [i \in Index(a, b) |-> FDiv(Elem(a, i), Elem(b, i))])
Fmax(a, b) ==
    IF IsRaise(a) \/ IsRaise(b) THEN Raise
    ELSE Shaped(IsArr(a) \/ IsArr(b),
                [i \in Index(a, b) |-> FFmax(Elem(a, i), Elem(b, i))])
Fmin(a, b) ==
    IF IsRaise(a) \/ IsRaise(b) THEN Raise
    ELSE Shaped(IsArr(a) \/ IsArr(b),
                [i \in Index(a, b) |-> FFmin(Elem(a, i), Elem(b, i))])
Neg(a) ==
    IF IsRaise(a) THEN Raise
    ELSE Shaped(IsArr(a), [i \in Index(a, a) |-> FNeg(Elem(a, i))])
AbsV(a) ==
    IF IsRaise(a) THEN Raise
    ELSE Shaped(IsArr(a), [i \in Index(a, a) |-> FAbs(Elem(a, i))])
Sqrt(a) ==
    IF IsRaise(a) THEN Raise
    ELSE Shaped(IsArr(a), [i \in Index(a, a) |-> FSqrt(Elem(a, i))])
Log10(a) ==
    IF IsRaise(a) THEN Raise
    ELSE Shaped(IsArr(a), [i \in Index(a, a) |-> FLog10(Elem(a, i))])
Exp(a) ==
    IF IsRaise(a) THEN Raise
    ELSE Shaped(IsArr(a), [i \in Index(a, a) |-> FExp(Elem(a, i))])
Pow2(a) ==
    IF IsRaise(a) THEN Raise
    ELSE Shaped(IsArr(a), [i \in Index(a, a) |-> FPow2(Elem(a, i))])
Pow3(a) ==
    IF IsRaise(a) THEN Raise
    ELSE Shaped(IsArr(a), [i \in Index(a, a) |-> FPow3(Elem(a, i))])
Pow4(a) ==
    IF IsRaise(a) THEN Raise
    ELSE Shaped(IsArr(a), [i \in Index(a, a) |-> FPow4(Elem(a, i))])
PowQuarter(a) ==
    IF IsRaise(a) THEN Raise
    ELSE Shaped(IsArr(a), [i \in Index(a, a) |-> FPowQuarter(Elem(a, i))])

PI == Lit(314159, -5)

----------------------------------------------------------------------------
(* The functions of the source                                             *)

\* Python evaluates the operands xs in order before the expression that uses
\* them: an exception raised in one of them leaves the expression
Raised(xs) == \E i \in DOMAIN xs : IsRaise(xs[i])

\* lin + c*ex
RpTerm(lin, c, ex) == IF Raised(<<lin, ex>>) THEN Raise ELSE Add(lin, Mul(c, ex))

\* a + b*lm2 + c*exp(d*lm2): one coefficient of the radius polynomial
RpCoef(a, b, c, d, lm2) == RpTerm(Add(a, Mul(b, lm2)), c, Exp(Mul(d, lm2)))

\* k0 + k1*(Mp-1.0) + k2*(Mp-1.0)**2.
RpPoly(k0, k1, k2, dM) ==
    IF Raised(<<k0, k1, k2, dM>>) THEN Raise
    ELSE Add(Add(k0, Mul(k1, dM)), Mul(k2, Pow2(dM)))

RpWarm(lm2, dM) ==
    RpPoly(RpCoef(Lit(411, -3), Lit(-244, -3), Lit(345, -2), Lit(762, -3), lm2),
           RpCoef(Lit(-489, -3), Lit(-961, -4), Lit(652, -3), Lit(353, -3), lm2),
           RpCoef(Lit(-228, -3), Lit(-106, -5), Lit(226, -3), Lit(220, -6), lm2),
           dM)

RpCold(lm2, dM) ==
    RpPoly(RpCoef(Lit(153, -2), Lit(111, -3), Lit(106, -2), Lit(906, -3), lm2),
           RpCoef(Lit(-195, -3), Lit(-307, -4), Lit(977, -4), Lit(695, -6), lm2),
           RpCoef(Lit(-250, -3), Lit(276, -6), Lit(254, -3), Lit(214, -6), lm2),
           dM)

\* the branch on Pop, lm2 computed
RpBranch(lm2, mp, pop) ==
    IF Raised(<<lm2>>) THEN Raise
    ELSE IF pop = "warm" THEN RpWarm(lm2, Sub(mp, One))
    ELSE IF pop = "cold" THEN RpCold(lm2, Sub(mp, One))
    ELSE Raise

\* the branch of the legacy file: any Pop but 'warm' takes the else
RpBranchLegacy(lm2, mp, pop) ==
    IF Raised(<<lm2>>) THEN Raise
    ELSE IF pop = "warm" THEN RpWarm(lm2, Sub(mp, One))
    ELSE RpCold(lm2, Sub(mp, One))

\* Rp_from_Mdot_Mp with the final else taking the cold fit
Rp_from_Mdot_Mp_AnyPop(mdot, mp, pop) ==
    RpBranchLegacy(Log10(Div(mdot, Lit(1, -2))), mp, pop)

\* Rp_from_Mdot_Mp with lm2 = log10(Mdot), the normalisation by 1e-2 lost
Rp_from_Mdot_Mp_NoNorm(mdot, mp, pop) == RpBranch(Log10(mdot), mp, pop)

\* Rp_from_Mdot_Mp taking the first element of an array Mp for every element
Rp_from_Mdot_Mp_FirstMp(mdot, mp, pop) ==
    RpBranch(Log10(Div(mdot, Lit(1, -2))),
             IF IsArr(mp) /\ mp.v # <<>> THEN mp.v[1] ELSE mp, pop)

Rp_from_Mdot_Mp(mdot, mp, pop) ==
    RpBranch(Log10(Div(mdot, Lit(1, -2))), mp, pop)

Rp_from_Mdot_Mp_Popsynthfit(mdot, mp, pop) ==
    RpBranchLegacy(Log10(Div(mdot, Lit(1, -2))), mp, pop)

\* v0simple without the factor -1
v0simple_Speed(mp, rp) ==
    Sqrt(Div(Mul(Mul(Mul(Lit(2, 0), Lit(667, -10)), mp), Lit(1898, 27)),
             Mul(rp, Lit(715, 7))))

v0simple(mp, rp) ==
    Mul(Lit(-1, 0),
        Sqrt(Div(Mul(Mul(Mul(Lit(2, 0), Lit(667, -10)), mp), Lit(1898, 27)),
                 Mul(rp, Lit(715, 7)))))

\* v0simple at the radius rp of the fit
vAt(mp, rp) == IF Raised(<<rp>>) THEN Raise ELSE v0simple(mp, rp)

v_MdotMp(mdot, mp, pop) == vAt(mp, Rp_from_Mdot_Mp(mdot, mp, pop))

X_H_MASSFRAC == Lit(738, -3)

\* num / (4 pi R^2 * ffill * -v * 1.673e-24 / X_H_MASSFRAC)
nFlux(num, rp, v, ff) ==
    IF Raised(<<num, rp, v>>) THEN Raise
    ELSE Div(num,
             Div(Mul(Mul(Mul(Mul(Mul(Lit(4, 0), PI),
                                 Pow2(Mul(rp, Lit(715, 7)))),
                             ff),
                         Neg(v)),
                     Lit(1673, -27)),
                 X_H_MASSFRAC))

\* n_MdotMp refusing a filling factor that is not positive
n_MdotMp_Guarded(mdot, mp, pop, ff) ==
    IF ~FLt(Zero, ff) THEN Raise
    ELSE nFlux(Mul(mdot, Lit(1893, 17)), Rp_from_Mdot_Mp(mdot, mp, pop),
               v_MdotMp(mdot, mp, pop), ff)

n_MdotMp(mdot, mp, pop, ff) ==
    nFlux(Mul(mdot, Lit(1893, 17)), Rp_from_Mdot_Mp(mdot, mp, pop),
          v_MdotMp(mdot, mp, pop), ff)

\* (num / (ffill * 4 pi (R*7.15e9)**3. * 5.67e-5))**0.25
TaccFlux(num, rp, ff) ==
    IF Raised(<<num, rp>>) THEN Raise
    ELSE PowQuarter(Div(num,
                        Mul(Mul(Mul(Mul(ff, Lit(4, 0)), PI),
                                Pow3(Mul(rp, Lit(715, 7)))),
                            Lit(567, -7))))

Tacc_MdotMp(mdot, mp, pop, ff) ==
    TaccFlux(Mul(Mul(Mul(Mul(Lit(667, -10), mp), Lit(1898, 27)), mdot),
                 Lit(1893, 17)),
             Rp_from_Mdot_Mp(mdot, mp, pop), ff)

\* the polynomial in dl = lgn0-12 and dv = v0-100
fdown1Poly(dl, dv) ==
    IF Raised(<<dl, dv>>) THEN Raise
    ELSE Sub(Add(Sub(Sub(Lit(703752, -6), Mul(Lit(967987, -7), dl)),
                     Mul(Lit(254579, -7), Pow2(AbsV(dl)))),
                 Mul(Sub(Sub(Lit(-527886, -8), Mul(Lit(146833, -8), dl)),
                         Mul(Lit(321504, -9), Pow2(AbsV(dl)))),
                     dv)),
             Mul(Lit(991492, -11), Pow2(AbsV(dv))))

fdown1_Popsynthfit(l0, u0) ==
    fdown1Poly(Sub(l0, Lit(12, 0)), Sub(u0, Lit(100, 0)))

\* np.fmax(np.fmin(raw, 1), 0)
fdownLimit(raw) == IF Raised(<<raw>>) THEN Raise ELSE Fmax(Fmin(raw, One), Zero)

\* fdown_Popsynthfit with the upper limit only
fdown_Popsynthfit_NoFloor(l0, u0) == Fmin(fdown1_Popsynthfit(l0, u0), One)

\* fdown_Popsynthfit handing the raw fit on
fdown_Popsynthfit_Raw(l0, u0) == fdown1_Popsynthfit(l0, u0)

fdown_Popsynthfit(l0, u0) == fdownLimit(fdown1_Popsynthfit(l0, u0))

\* the fit at the density n and the velocity v of the accretion flow
fdownAt(n, v) ==
    IF Raised(<<n, v>>) THEN Raise
    ELSE fdown_Popsynthfit(Log10(n), Div(v, Lit(-1, 5)))

\* line 93: the fraction Teff_from_Mdot_Mp multiplies Tacc**4. by
fdown_MdotMp(mdot, mp, pop, ff) ==
    fdownAt(n_MdotMp(mdot, mp, pop, ff), v_MdotMp(mdot, mp, pop))

\* Teff_from_Mdot_Mp adding the whole of Tacc**4.
Teff_from_Mdot_Mp_NoFdown(mdot, mp, tint, pop, ff) ==
    LET Blend(t4, fdown, tacc) ==
            IF Raised(<<t4, fdown, tacc>>) THEN Raise
            ELSE PowQuarter(Add(t4, Pow4(tacc)))
    IN Blend(Pow4(tint), fdown_MdotMp(mdot, mp, pop, ff),
             Tacc_MdotMp(mdot, mp, pop, ff))

\* Teff_from_Mdot_Mp with the sign of the intrinsic term slipped
Teff_from_Mdot_Mp_Minus(mdot, mp, tint, pop, ff) ==
    LET Blend(t4, fdown, tacc) ==
            IF Raised(<<t4, fdown, tacc>>) THEN Raise
            ELSE PowQuarter(Sub(Mul(fdown, Pow4(tacc)), t4))
    IN Blend(Pow4(tint), fdown_MdotMp(mdot, mp, pop, ff),
             Tacc_MdotMp(mdot, mp, pop, ff))

Teff_from_Mdot_Mp(mdot, mp, tint, pop, ff) ==
    LET Blend(t4, fdown, tacc) ==
            IF Raised(<<t4, fdown, tacc>>) THEN Raise
            ELSE PowQuarter(Add(t4, Mul(fdown, Pow4(tacc))))
    IN Blend(Pow4(tint), fdown_MdotMp(mdot, mp, pop, ff),
             Tacc_MdotMp(mdot, mp, pop, ff))

----------------------------------------------------------------------------
(* The calls                                                               *)

\* the outcome of a call: the value returned, or the exception raised
Returned(x) ==
    IF IsRaise(x) THEN [kind |-> "InvalidArgument", val |-> Raise]
    ELSE [kind |-> "value", val |-> x]

NoOutcome == [kind |-> "none", val |-> Zero]

PopSet == {"warm", "cold", "hot"}
ValidPop == {"warm", "cold"}

\* sample arguments; the first N.. of each are drawn
MaxLen == 2
NMdot == 5
NMp == 5
NTint == 6
NFfill == 3
NFit == 10
NVel == 8

MdotSamples ==
    <<Lit(1, -2), Lit(1, -3), Lit(1, -5), Zero, Lit(-1, -3), Lit(2, -2), Lit(1, -1)>>
MpSamples ==
    <<One, Lit(5, 0), Lit(5, -1), Lit(20, 0), Zero, Lit(200, 0), Lit(-1, 0)>>
TintSamples ==
    <<Zero, Lit(1, -1), Lit(1000, 0), Lit(1234, 0), Lit(-500, 0), Lit(3000, 0),
      Lit(500, 0), Lit(8000, 0)>>
FfillSamples == <<One, Zero, Lit(-1, 0), Lit(1, -1), Lit(5, -1)>>
LgnSamples ==
    <<Lit(12, 0), Lit(8, 0), Lit(14, 0), Zero, Lit(20, 0), Lit(-1, 6), Lit(1, 6),
      Lit(10, 0), Lit(13, 0), Lit(1, 200), Lit(11, 0), Lit(-1, 200)>>
VelSamples ==
    <<Lit(100, 0), Zero, Lit(30, 0), Lit(200, 0), Lit(-100, 0), Lit(1, 6),
      Lit(-1, 6), Lit(60, 0), Lit(150, 0), Lit(1, 200), Lit(300, 0), Lit(-1, 200)>>
RpSamples ==
    <<One, Lit(2, 0), Lit(5, -1), Lit(10, 0), Zero, Lit(-1, 0), Lit(1, -6),
      Lit(1, 6), Lit(3, 0), Lit(4, 0)>>

Samples(xs, n) == {xs[i] : i \in 1..n}

MdotSet == Samples(MdotSamples, NMdot)
MpSet == Samples(MpSamples, NMp)
TintSet == Samples(TintSamples, NTint)
FfillSet == Samples(FfillSamples, NFfill)
LgnSet == Samples(LgnSamples, NFit)
VelSet == Samples(VelSamples, NFit)
RpSet == Samples(RpSamples, NVel)

\* the sequences over S of length n
RECURSIVE SeqsOf(_, _)
SeqsOf(S, n) ==
    IF n = 0 THEN {<<>>}
    ELSE {Append(q, x) : q \in SeqsOf(S, n - 1), x \in S}

\* the elements of the array arguments
ArrMdotSet == {Lit(1, -3), Zero}
ArrMpSet == {Lit(5, 0), Lit(5, -1)}

\* (Mdot, Mp): two scalars, or two arrays of one length
ScalarArgs == (MdotSet \cup ArrMdotSet) \X (MpSet \cup ArrMpSet)
ArrayArgs ==
    UNION {{<<Arr(a), Arr(b)>> : a \in SeqsOf(ArrMdotSet, n),
                                  b \in SeqsOf(ArrMpSet, n)} : n \in 0..MaxLen}
RadiusArgs == ScalarArgs \cup ArrayArgs

\* The functions on the sample arguments.  The functions are pure: the value
\* of a call is the value of the function at its arguments.
RpOf == [a \in RadiusArgs, q \in PopSet |-> Rp_from_Mdot_Mp(a[1], a[2], q)]

RpLegacyOf ==
    [a \in RadiusArgs, q \in PopSet |-> Rp_from_Mdot_Mp_Popsynthfit(a[1], a[2], q)]

v0Of == [m \in MpSet, r \in RpSet |-> v0simple(m, r)]

vOf == [m \in MdotSet, p \in MpSet, q \in PopSet |-> v_MdotMp(m, p, q)]

nOf ==
    [m \in MdotSet, p \in MpSet, q \in PopSet, f \in FfillSet |->
        n_MdotMp(m, p, q, f)]

TaccOf ==
    [m \in MdotSet, p \in MpSet, q \in PopSet, f \in FfillSet |->
        Tacc_MdotMp(m, p, q, f)]

fdown1Of == [l \in LgnSet, u \in VelSet |-> fdown1_Popsynthfit(l, u)]

fdownOf == [l \in LgnSet, u \in VelSet |-> fdown_Popsynthfit(l, u)]

fdownInTeffOf ==
    [m \in MdotSet, p \in MpSet, q \in PopSet, f \in FfillSet |->
        fdown_MdotMp(m, p, q, f)]

TeffOf ==
    [m \in MdotSet, p \in MpSet, t \in TintSet, q \in PopSet, f \in FfillSet |->
        Teff_from_Mdot_Mp(m, p, t, q, f)]

Call(name, result) ==
    /\ pc = "ready"
    /\ pc' = name
    /\ out' = result
    /\ UNCHANGED <<Mdot, Mp, Pop, Tint, ffill, lgn0, v0, Rp>>

CallRp == Call("Rp_from_Mdot_Mp", Returned(RpOf[<<Mdot, Mp>>, Pop]))

CallRpLegacy ==
    Call("Rp_from_Mdot_Mp_Popsynthfit", Returned(RpLegacyOf[<<Mdot, Mp>>, Pop]))

CallV0simple == Call("v0simple", Returned(v0Of[Mp, Rp]))

CallV == Call("v_MdotMp", Returned(vOf[Mdot, Mp, Pop]))

CallN == Call("n_MdotMp", Returned(nOf[Mdot, Mp, Pop, ffill]))

CallTacc == Call("Tacc_MdotMp", Returned(TaccOf[Mdot, Mp, Pop, ffill]))

CallFdown1 == Call("fdown1_Popsynthfit", Returned(fdown1Of[lgn0, v0]))

CallFdown == Call("fdown_Popsynthfit", Returned(fdownOf[lgn0, v0]))

CallTeff ==
    Call("Teff_from_Mdot_Mp", Returned(TeffOf[Mdot, Mp, Tint, Pop, ffill]))

\* the whole chain: the arguments of Teff_from_Mdot_Mp, and those of the fit
Init ==
    /\ pc = "ready"
    /\ out = NoOutcome
    /\ Rp = One
    /\ \/ /\ Mdot \in MdotSet /\ Mp \in MpSet /\ Pop \in PopSet
          /\ Tint \in TintSet /\ ffill \in FfillSet
          /\ lgn0 = Zero /\ v0 = Zero
       \/ /\ Mdot = Lit(1, -2) /\ Mp = One /\ Pop = "warm"
          /\ Tint = Zero /\ ffill = One
          /\ lgn0 \in Samples(LgnSamples, 3) /\ v0 \in Samples(VelSamples, 3)

Next ==
    \/ CallRp
    \/ CallV
    \/ CallN
    \/ CallTacc
    \/ CallFdown
    \/ CallTeff

Spec == Init /\ [][Next]_vars

\* the radius fits, scalars and arrays of equal length
InitRadius ==
    /\ pc = "ready"
    /\ out = NoOutcome
    /\ Tint = Zero /\ ffill = One /\ lgn0 = Zero /\ v0 = Zero /\ Rp = One
    /\ Pop \in PopSet
    /\ \E a \in RadiusArgs : Mdot = a[1] /\ Mp = a[2]

NextRadius == CallRp \/ CallRpLegacy

SpecRadius == InitRadius /\ [][NextRadius]_vars

\* the downward-flux fit alone
InitFdown ==
    /\ pc = "ready"
    /\ out = NoOutcome
    /\ Mdot = Lit(1, -2) /\ Mp = One /\ Pop = "warm"
    /\ Tint = Zero /\ ffill = One /\ Rp = One
    /\ lgn0 \in LgnSet
    /\ v0 \in VelSet

NextFdown == CallFdown1 \/ CallFdown

SpecFdown == InitFdown /\ [][NextFdown]_vars

\* the free-fall velocity, alone and on the fitted radius
InitVel ==
    /\ pc = "ready"
    /\ out = NoOutcome
    /\ Tint = Zero /\ ffill = One /\ lgn0 = Zero /\ v0 = Zero
    /\ Mp \in MpSet
    /\ \/ Rp \in RpSet /\ Mdot = Lit(1, -2) /\ Pop = "warm"
       \/ Rp = One /\ Mdot \in MdotSet /\ Pop \in PopSet

NextVel == CallV0simple \/ CallV

SpecVel == InitVel /\ [][NextVel]_vars

----------------------------------------------------------------------------
(* The claims                                                              *)

\* Rp_from_Mdot_Mp and the functions that call it
RadiusCallers ==
    {"Rp_from_Mdot_Mp", "v_MdotMp", "n_MdotMp", "Tacc_MdotMp", "Teff_from_Mdot_Mp"}

\* C1: with a Pop that is neither 'warm' nor 'cold', Rp_from_Mdot_Mp and each
\* function that composes it (v_MdotMp, n_MdotMp, Tacc_MdotMp,
\* Teff_from_Mdot_Mp) ends in InvalidArgument, whatever Mdot, Mp, Tint and
\* ffill are, and returns no value.
C1_InvalidPopRaises ==
    (pc \in RadiusCallers /\ Pop \notin ValidPop)
        => (out.kind = "InvalidArgument" /\ IsRaise(out.val))

C1_Witness ==
    /\ pc = "Teff_from_Mdot_Mp"
    /\ Pop = "hot"
    /\ FLt(Zero, Mdot) /\ FLt(Zero, Mp)
    /\ out.kind = "InvalidArgument"

C3_StrictlyIncreasing ==
    (pc = "Teff_from_Mdot_Mp" /\ ffill = One /\ Pop \in ValidPop) =>
        \A t2 \in TintSet :
            FLt(Tint, t2) => FLt(out.val, TeffOf[Mdot, Mp, t2, Pop, ffill])

\* C3 amended: with Mdot, Mp, Pop fixed and ffill = 1.0, Teff_from_Mdot_Mp does
\* not decrease with a Tint that is not negative: 0 <= Tint1 < Tint2 gives
\* Teff(Tint1) <= Teff(Tint2) whenever both results are numbers (not nan).
C3_NonDecreasing ==
    (pc = "Teff_from_Mdot_Mp" /\ ffill = One /\ Pop \in ValidPop
        /\ FLe(Zero, Tint) /\ ~IsNaN(out.val)) =>
        \A t2 \in TintSet :
            (FLt(Tint, t2) /\ ~IsNaN(TeffOf[Mdot, Mp, t2, Pop, ffill]))
                => FLe(out.val, TeffOf[Mdot, Mp, t2, Pop, ffill])

\* two intrinsic temperatures that the sum with the accretion term absorbs
C3_Witness ==
    /\ pc = "Teff_from_Mdot_Mp" /\ ffill = One /\ Pop = "warm"
    /\ Tint = Zero
    /\ IsFinite(out.val) /\ FLt(Zero, out.val)
    /\ \E t2 \in TintSet :
          /\ FLt(Tint, t2)
          /\ out.val = TeffOf[Mdot, Mp, t2, Pop, ffill]
    /\ \E t3 \in TintSet : FLt(out.val, TeffOf[Mdot, Mp, t3, Pop, ffill])

\* C4: for valid Pop, Teff_from_Mdot_Mp with Tint = 0 returns exactly
\* (fdown * Tacc^4)^0.25, fdown the clamped fit at log10(n_MdotMp) and
\* v_MdotMp/-1e5 and Tacc = Tacc_MdotMp: the intrinsic term adds nothing.
C4_ZeroTint ==
    (pc = "Teff_from_Mdot_Mp" /\ IsZero(Tint) /\ Pop \in ValidPop) =>
        /\ out.kind = "value"
        /\ out.val = PowQuarter(Mul(fdownInTeffOf[Mdot, Mp, Pop, ffill],
                                    Pow4(TaccOf[Mdot, Mp, Pop, ffill])))

C4_Witness ==
    /\ pc = "Teff_from_Mdot_Mp" /\ IsZero(Tint) /\ Pop = "cold"
    /\ FLt(Zero, fdownInTeffOf[Mdot, Mp, Pop, ffill])
    /\ FLt(fdownInTeffOf[Mdot, Mp, Pop, ffill], One)
    /\ IsFinite(out.val) /\ FLt(Zero, out.val)

\* |a - b| <= 1e-3
Near(a, b) == FLe(FAbs(FSub(a, b)), Lit(1, -3))

\* C5: at Mdot = 1e-2 and Mp = 1.0 Rp_from_Mdot_Mp returns the constant term
\* of the fit, 0.411 + 3.45 = 3.861 for 'warm' and 1.53 + 1.06 = 2.59 for
\* 'cold' (to the floating-point tolerance): the terms in Mp-1 add nothing.
C5_ReferencePoint ==
    (pc = "Rp_from_Mdot_Mp" /\ Mdot = Lit(1, -2) /\ Mp = One /\ Pop \in ValidPop)
    => /\ out.kind = "value"
       /\ Pop = "warm" => /\ out.val = FAdd(Lit(411, -3), Lit(345, -2))
                          /\ Near(out.val, Lit(3861, -3))
       /\ Pop = "cold" => /\ out.val = FAdd(Lit(153, -2), Lit(106, -2))
                          /\ Near(out.val, Lit(259, -2))

C5_Witness ==
    /\ pc = "Rp_from_Mdot_Mp" /\ Mdot = Lit(1, -2) /\ Mp = One /\ Pop = "warm"
    /\ Near(out.val, Lit(3861, -3))

\* C6: called with two arrays of length N and a valid Pop, Rp_from_Mdot_Mp
\* returns an array of length N whose i-th element is the result of the
\* scalar call on Mdot[i] and Mp[i].
C6_Elementwise ==
    (pc = "Rp_from_Mdot_Mp" /\ IsArr(Mdot) /\ IsArr(Mp) /\ Pop \in ValidPop)
    => /\ out.kind = "value"
       /\ IsArr(out.val)
       /\ DOMAIN out.val.v = DOMAIN Mdot.v
       /\ \A i \in DOMAIN Mdot.v :
             out.val.v[i] = RpOf[<<Mdot.v[i], Mp.v[i]>>, Pop]

C6_Witness ==
    /\ pc = "Rp_from_Mdot_Mp" /\ IsArr(Mdot) /\ IsArr(Mp) /\ Pop = "warm"
    /\ Len(Mdot.v) = 2
    /\ Mdot.v[1] # Mdot.v[2] /\ Mp.v[1] # Mp.v[2]
    /\ IsArr(out.val) /\ out.val.v[1] # out.val.v[2]

\* C7: for Mp > 0 and Rp > 0 v0simple returns v <= 0, so that the speed
\* v/-1e5 handed to the downward-fraction fit is not negative; the same of
\* v_MdotMp where the fitted radius is positive.
C7_InfallNotPositive ==
    /\ (pc = "v0simple" /\ FLt(Zero, Mp) /\ FLt(Zero, Rp))
           => /\ out.kind = "value"
              /\ FLe(out.val, Zero)
              /\ FLe(Zero, FDiv(out.val, Lit(-1, 5)))
    /\ (pc = "v_MdotMp" /\ Pop \in ValidPop /\ FLt(Zero, Mp)
           /\ FLt(Zero, RpOf[<<Mdot, Mp>>, Pop]))
           => /\ out.kind = "value"
              /\ FLe(out.val, Zero)
              /\ FLe(Zero, FDiv(out.val, Lit(-1, 5)))

C7_Witness ==
    /\ pc = "v0simple" /\ FLt(Zero, Mp) /\ FLt(Zero, Rp)
    /\ FLt(out.val, Zero)
    /\ FLt(Zero, FDiv(out.val, Lit(-1, 5)))

C9_LegacyDuplicate ==
    pc = "Rp_from_Mdot_Mp_Popsynthfit" => out = Returned(RpOf[<<Mdot, Mp>>, Pop])

\* C10: for valid Pop, Tint >= 0 and a finite Tacc_MdotMp, the result of
\* Teff_from_Mdot_Mp lies between Tint and (Tint^4 + Tacc^4)^0.25.
C10_EnergyBound ==
    (pc = "Teff_from_Mdot_Mp" /\ Pop \in ValidPop /\ FLe(Zero, Tint)
        /\ IsFinite(TaccOf[Mdot, Mp, Pop, ffill]))
    => /\ out.kind = "value"
       /\ FLe(Tint, out.val)
       /\ FLe(out.val,
              PowQuarter(Add(Pow4(Tint), Pow4(TaccOf[Mdot, Mp, Pop, ffill]))))

C10_Witness ==
    /\ pc = "Teff_from_Mdot_Mp" /\ Pop \in ValidPop /\ FLt(Zero, Tint)
    /\ IsFinite(TaccOf[Mdot, Mp, Pop, ffill])
    /\ FLt(Tint, out.val)
    /\ FLt(out.val,
           PowQuarter(Add(Pow4(Tint), Pow4(TaccOf[Mdot, Mp, Pop, ffill]))))

=============================================================================
